---------------------------- MODULE Spec2Model ----------------------------
(***************************************************************************)
(* LastMinute study assistant: the session orchestration of App (state held *)
(* by the App component, its handlers, and the two service calls of        *)
(* services/geminiService.ts).  Every handler is one action per            *)
(* synchronous segment: a handler that awaits is split at each await, and  *)
(* the values it captured from its render are kept in its invocation       *)
(* record.                                                                 *)
(***************************************************************************)
EXTENDS Integers, Sequences, FiniteSets, Bags, TLC

(***************************************************************************)
(* Bounds of the model.                                                    *)
(***************************************************************************)
MaxInFlight == 2      \* handleGenerate invocations that may be suspended at once
MaxGenerations == 2   \* successful or pending generations in the interleaving specification
MaxAsks == 2          \* handleAskTutor invocations that may be suspended at once
MaxChatLen == 3       \* the user stops asking once the chat holds this many turns
MaxMcqIdx == 1        \* the user answers only the MCQs with an index below this
MaxSignOut == 1       \* handleLogout invocations that may be suspended at once
MaxHistGenerations == 16  \* generations of the history specification
MaxInputGenerations == 1  \* generations of the input specification
MaxClock == 2         \* readings of Date.now()
MaxDictations == 2    \* microphone streams acquired or being acquired
MaxDownloads == 3     \* documents downloaded

(***************************************************************************)
(* Program constants.                                                      *)
(***************************************************************************)
HistoryCapacity == 15
TitleLimit == 30

(***************************************************************************)
(* Values.  Text is a sequence of one-character strings (a fixed message   *)
(* is a sequence of one token); a nullable object is Null or a record.     *)
(***************************************************************************)
Null == [null |-> TRUE]
NoError == "null"
ValidationMsg == "Input material is required for Blitz generation."
BottleneckMsg == "AI Engine encountered a bottleneck. Try a shorter snippet."
EntityNotFoundMsg == "Requested entity was not found"
NoResponseMsg == "No response generated from AI."
SyntaxErrorMsg == "SyntaxError"
NetworkErrorMsg == "fetch failed"
ApiNotFoundMsg == "404 NOT_FOUND: Requested entity was not found."
NotVerifiedMsg == "Email not verified. Please check your inbox."
InvalidCredentialsMsg == "Invalid credentials. Please check your email and password."
TooManyAttemptsMsg == "Too many failed attempts. Please try again later."
AuthNetworkMsg == "Network error. Please check your connection."
AuthFailedMsg == "Authentication failed. Please try again."
MicMsg == "Microphone access or connection failed."
FallbackText == <<"Signal lost. Please re-query.">>
ApologyText == <<"I'm sorry, I couldn't process that. Can you rephrase?">>

FIVE_MINS == "5 minutes"
TEN_MINS == "10 minutes"
RevisionTime == {FIVE_MINS, TEN_MINS}

IsWhitespace(c) == c \in {" ", "\n", "\t"}

\* String.prototype.trim: drops the leading and the trailing whitespace.
RECURSIVE TrimStart(_)
TrimStart(s) ==
    IF s = <<>> THEN <<>>
    ELSE IF IsWhitespace(Head(s)) THEN TrimStart(Tail(s)) ELSE s

RECURSIVE TrimEnd(_)
TrimEnd(s) ==
    IF s = <<>> THEN <<>>
    ELSE IF IsWhitespace(s[Len(s)]) THEN TrimEnd(SubSeq(s, 1, Len(s) - 1)) ELSE s

Trim(s) == TrimEnd(TrimStart(s))

\* Array.prototype.slice(0, n)
Slice0(s, n) == SubSeq(s, 1, IF Len(s) < n THEN Len(s) ELSE n)

(***************************************************************************)
(* Artifacts (RevisionResult) the model service may return.                *)
(***************************************************************************)
Mcq(q, n, c) ==
    [question |-> q, options |-> [i \in 1..n |-> "opt"],
     correctAnswerIndex |-> c, explanation |-> "why"]

ArtifactA ==
    [revisionNotes |-> "notes A",
     definitions |-> <<[term |-> "t", definition |-> "d"]>>,
     formulas |-> <<"No formulas applicable">>,
     examTips |-> <<"tip1", "tip2", "tip3">>,
     mcqs |-> [i \in 1..5 |-> Mcq("qA", 2, 0)],
     flowchart |-> "graph TD"]

ArtifactB ==
    [revisionNotes |-> "notes B",
     definitions |-> <<[term |-> "t", definition |-> "d"]>>,
     formulas |-> <<"E = mc^2">>,
     examTips |-> <<"tip1", "tip2", "tip3">>,
     mcqs |-> [i \in 1..6 |-> Mcq("qB", 3, 1)],
     flowchart |-> "graph LR"]

\* A payload that parses but breaks the schema: one MCQ whose
\* correctAnswerIndex is out of range, an empty flowchart.
ArtifactBad ==
    [revisionNotes |-> "notes C",
     definitions |-> <<>>,
     formulas |-> <<>>,
     examTips |-> <<"tip1">>,
     mcqs |-> <<Mcq("qC", 2, 5)>>,
     flowchart |-> ""]

(***************************************************************************)
(* The text of a model response is a sequence of tokens: whitespace, a     *)
(* JSON document, or text that is no JSON.                                 *)
(***************************************************************************)
Ws == [kind |-> "ws"]
Junk == [kind |-> "junk"]
Doc(v) == [kind |-> "json", value |-> v]

TrimTokens(t) ==
    LET RECURSIVE Lead(_)
        Lead(s) == IF s # <<>> /\ Head(s) = Ws THEN Lead(Tail(s)) ELSE s
        RECURSIVE Trail(_)
        Trail(s) == IF s # <<>> /\ s[Len(s)] = Ws
                    THEN Trail(SubSeq(s, 1, Len(s) - 1)) ELSE s
    IN Trail(Lead(t))

\* JSON.parse: one document and nothing else, or a SyntaxError.
JSONParse(t) ==
    IF Len(t) = 1 /\ t[1].kind = "json"
    THEN [ok |-> TRUE, value |-> t[1].value]
    ELSE [ok |-> FALSE, message |-> SyntaxErrorMsg]

Rejected(msg) == [kind |-> "reject", message |-> msg]
Replied(t) == [kind |-> "text", text |-> t]

\* What ai.models.generateContent may answer.
GenResponses ==
    { Rejected(NetworkErrorMsg), Rejected(EntityNotFoundMsg), Rejected(ApiNotFoundMsg),
      Replied(<<>>), Replied(<<Ws>>), Replied(<<Junk>>),
      Replied(<<Doc(ArtifactA), Doc(ArtifactA)>>),
      Replied(<<Ws, Doc(ArtifactA), Ws>>), Replied(<<Doc(ArtifactB)>>),
      Replied(<<Doc(ArtifactBad)>>), Replied(<<Doc(Null)>>) }

\* The responses whose error is the entity-not-found condition.
NotFoundResponses == { Rejected(EntityNotFoundMsg), Rejected(ApiNotFoundMsg) }

\* The smaller choice used where the variety of artifacts is not the point.
FewGenResponses ==
    { Rejected(NetworkErrorMsg), Replied(<<>>), Replied(<<Junk>>),
      Replied(<<Ws, Doc(ArtifactA), Ws>>), Replied(<<Doc(ArtifactB)>>) }

HistGenResponses == { Rejected(NetworkErrorMsg), Replied(<<Doc(ArtifactA)>>) }

\* generateRevision after its await: the value returned or the error thrown.
generateRevision(resp) ==
    IF resp.kind = "reject" THEN [ok |-> FALSE, message |-> resp.message]
    ELSE IF resp.text = <<>> THEN [ok |-> FALSE, message |-> NoResponseMsg]
    ELSE JSONParse(TrimTokens(resp.text))

\* What chat.sendMessage may answer.
TutorResponses ==
    { Rejected(NetworkErrorMsg), Replied(<<>>), Replied(<<"r">>) }

\* askTutor after its await: the text returned or the error thrown.
askTutor(resp) ==
    IF resp.kind = "reject" THEN [ok |-> FALSE, message |-> resp.message]
    ELSE [ok |-> TRUE, value |-> IF resp.text = <<>> THEN ApologyText ELSE resp.text]

(***************************************************************************)
(* Inputs of the user.                                                     *)
(***************************************************************************)
LongContent == [i \in 1..(TitleLimit + 1) |-> "x"]
ContentInputs == { <<>>, <<" ">>, <<" ", "a", " ">>, LongContent }
FewContentInputs == { <<"a">> }
FewTutorInputs == { <<"q">> }
FileInputs == { [base64 |-> "AAAA", mimeType |-> "application/pdf", name |-> <<"f">>] }
AuthUsers == { "none", "unverified", "verified" }

\* The users signInWithEmailAndPassword resolves with, the codes it rejects
\* with, and the codes signOut rejects with.
SignedInUsers == { "unverified", "verified" }
AuthErrorCodes ==
    { "auth/invalid-credential", "auth/wrong-password", "auth/user-not-found",
      "auth/too-many-requests", "auth/network-request-failed", "auth/internal-error" }
SignOutErrorCodes == { "auth/network-request-failed", "auth/internal-error" }

(***************************************************************************)
(* State of App.                                                           *)
(***************************************************************************)
VARIABLES
    isAuthenticated,   \* useState(false)
    content,           \* useState('')
    time,              \* useState(RevisionTime.FIVE_MINS)
    uploadedFile,      \* useState(null)
    loading,           \* useState(false)
    result,            \* useState(null): the active artifact
    history,           \* useState(saved history or [])
    error,             \* useState(null)
    userAnswers,       \* useState({})
    chatMessages,      \* useState([])
    tutorInput,        \* useState('')
    isTutorThinking,   \* useState(false)
    gen,               \* the bag of suspended handleGenerate invocations, each
                       \* with what it captured and the generateContent calls
                       \* it has issued
    ask,               \* the bag of suspended handleAskTutor invocations, each
                       \* with what it captured and the sendMessage calls it
                       \* has issued
    signOutPending,    \* the handleLogout invocations awaiting signOut
    now,               \* the reading of Date.now()
    generated,         \* every HistoryItem created so far, oldest first
    isDictating,       \* useState(false)
    liveSessionRef,    \* useRef(null): the promise of the live session, 0 for null
    audioContextRef,   \* useRef(null): the audio context, 0 for null
    streamRef,         \* useRef(null): the microphone stream, 0 for null
    streams,           \* the microphone streams getUserMedia has handed out
    contexts,          \* the audio contexts created
    sessions,          \* the live connections ai.live.connect has started
    dict,              \* the bag of suspended startDictation invocations
    isExportModalOpen, \* useState(false)
    exportOptions,     \* useState({ includeMCQs: true, ... })
    downloads,         \* the documents handleDownload has produced, oldest first
    selectKeyOpen,     \* the key dialog the catch of handleGenerate opened is up
    currentUser,       \* auth.currentUser at the provider
    lastNotified,      \* the user of the latest auth-state notification
    isAuthenticating,  \* useState(false)
    showVerificationScreen, \* useState(false)
    authError,         \* useState(null)
    login              \* the bag of suspended handleLogin invocations

inputVars == <<content, time, uploadedFile, tutorInput>>
sessionVars == <<loading, result, history, error, userAnswers, chatMessages, isTutorThinking>>
procVars == <<gen, ask, signOutPending>>
dictVars == <<isDictating, liveSessionRef, audioContextRef, streamRef, streams, contexts,
              sessions, dict>>
exportVars == <<isExportModalOpen, exportOptions, downloads>>
keyVars == <<selectKeyOpen>>
authVars == <<currentUser, lastNotified, isAuthenticating, showVerificationScreen, authError,
              login>>
vars == <<isAuthenticated, inputVars, sessionVars, procVars, now, generated, dictVars,
          exportVars, keyVars, authVars>>

\* A bag of one invocation, and the invocations of a bag that wait at pc.
One(inv) == SetToBag({inv})
Waiting(b, pc) == [inv \in {x \in BagToSet(b) : x.pc = pc} |-> b[inv]]

Calling == Waiting(gen, "calling")
Asking == Waiting(ask, "calling")

Init ==
    /\ isAuthenticated = FALSE
    /\ content = <<>>
    /\ time = FIVE_MINS
    /\ uploadedFile = Null
    /\ loading = FALSE
    /\ result = Null
    /\ history = <<>>
    /\ error = NoError
    /\ userAnswers = <<>>
    /\ chatMessages = <<>>
    /\ tutorInput = <<>>
    /\ isTutorThinking = FALSE
    /\ gen = EmptyBag
    /\ ask = EmptyBag
    /\ signOutPending = 0
    /\ now = 0
    /\ generated = <<>>
    /\ isDictating = FALSE
    /\ liveSessionRef = 0
    /\ audioContextRef = 0
    /\ streamRef = 0
    /\ streams = <<>>
    /\ contexts = <<>>
    /\ sessions = <<>>
    /\ dict = EmptyBag
    /\ isExportModalOpen = FALSE
    /\ exportOptions = [includeMCQs |-> TRUE, includeMap |-> TRUE, includeFormulas |-> TRUE,
                        inkSaver |-> FALSE, includeHeader |-> TRUE]
    /\ downloads = <<>>
    /\ selectKeyOpen = FALSE
    /\ currentUser = "none"
    /\ lastNotified = "none"
    /\ isAuthenticating = FALSE
    /\ showVerificationScreen = FALSE
    /\ authError = NoError
    /\ login = EmptyBag


(***************************************************************************)
(* Inputs: the onChange handlers of the material panel.  The main tree is  *)
(* rendered only while isAuthenticated holds.                              *)
(***************************************************************************)
SetContent(c) ==
    /\ isAuthenticated
    /\ content # c
    /\ content' = c
    /\ UNCHANGED <<isAuthenticated, time, uploadedFile, tutorInput, sessionVars,
                   procVars, now, generated>>
    /\ UNCHANGED dictVars
    /\ UNCHANGED exportVars
    /\ UNCHANGED <<keyVars, authVars>>

SetTime(t) ==
    /\ isAuthenticated
    /\ time # t
    /\ time' = t
    /\ UNCHANGED <<isAuthenticated, content, uploadedFile, tutorInput, sessionVars,
                   procVars, now, generated>>
    /\ UNCHANGED dictVars
    /\ UNCHANGED exportVars
    /\ UNCHANGED <<keyVars, authVars>>

\* reader.onload of handleFileUpload
HandleFileUpload(f) ==
    /\ isAuthenticated
    /\ uploadedFile' = f
    /\ error' = NoError
    /\ UNCHANGED <<isAuthenticated, content, time, tutorInput, loading, result, history,
                   userAnswers, chatMessages, isTutorThinking, procVars, now, generated>>
    /\ UNCHANGED dictVars
    /\ UNCHANGED exportVars
    /\ UNCHANGED <<keyVars, authVars>>

RemoveFile ==
    /\ isAuthenticated
    /\ uploadedFile # Null
    /\ uploadedFile' = Null
    /\ UNCHANGED <<isAuthenticated, content, time, tutorInput, sessionVars,
                   procVars, now, generated>>
    /\ UNCHANGED dictVars
    /\ UNCHANGED exportVars
    /\ UNCHANGED <<keyVars, authVars>>

SetTutorInput(t) ==
    /\ isAuthenticated
    /\ result # Null
    /\ tutorInput # t
    /\ tutorInput' = t
    /\ UNCHANGED <<isAuthenticated, content, time, uploadedFile, sessionVars,
                   procVars, now, generated>>
    /\ UNCHANGED dictVars
    /\ UNCHANGED exportVars
    /\ UNCHANGED <<keyVars, authVars>>

Tick ==
    /\ now < MaxClock
    /\ now' = now + 1
    /\ UNCHANGED <<isAuthenticated, inputVars, sessionVars, procVars, generated>>
    /\ UNCHANGED dictVars
    /\ UNCHANGED exportVars
    /\ UNCHANGED <<keyVars, authVars>>

(***************************************************************************)
(* handleGenerate                                                          *)
(***************************************************************************)
\* The generate button: disabled={loading}
GenerateButtonEnabled == ~loading

\* Mutant of InputMissing: the test without the trim.
InputMissingNoTrim == content = <<>> /\ uploadedFile = Null

\* if (!content.trim() && !uploadedFile)
InputMissing == Trim(content) = <<>> /\ uploadedFile = Null

\* Up to the await of ensureApiKey.
HandleGenerate(cap) ==
    /\ isAuthenticated
    /\ GenerateButtonEnabled
    /\ IF InputMissing
       THEN /\ error' = ValidationMsg
            /\ UNCHANGED <<gen>>
       ELSE /\ BagCardinality(gen) < MaxInFlight
            /\ Len(generated) + BagCardinality(gen) < cap
            /\ gen' = gen (+) One([pc |-> "ensureKey", content |-> content,
                                   time |-> time, file |-> uploadedFile,
                                   calls |-> 0])
            /\ UNCHANGED <<error>>
    /\ UNCHANGED <<isAuthenticated, inputVars, loading, result, history, userAnswers,
                   chatMessages, isTutorThinking, ask, signOutPending, now, generated>>
    /\ UNCHANGED dictVars
    /\ UNCHANGED exportVars
    /\ UNCHANGED <<keyVars, authVars>>

\* ensureApiKey resolved: setLoading(true) ... setChatMessages([]), then the
\* call of generateRevision.
EnsureApiKeyResolve(inv) ==
    /\ BagIn(inv, gen)
    /\ inv.pc = "ensureKey"
    /\ loading' = TRUE
    /\ error' = NoError
    /\ userAnswers' = <<>>
    /\ chatMessages' = <<>>
    /\ gen' = (gen (-) One(inv)) (+)
                  One([inv EXCEPT !.pc = "calling", !.calls = inv.calls + 1])
    /\ UNCHANGED <<isAuthenticated, inputVars, result, history, isTutorThinking, ask,
                   signOutPending, now, generated>>
    /\ UNCHANGED dictVars
    /\ UNCHANGED exportVars
    /\ UNCHANGED <<keyVars, authVars>>

\* ensureApiKey rejected: the exception leaves handleGenerate, nothing is set.
EnsureApiKeyReject(inv) ==
    /\ BagIn(inv, gen)
    /\ inv.pc = "ensureKey"
    /\ gen' = gen (-) One(inv)
    /\ UNCHANGED <<isAuthenticated, inputVars, sessionVars, ask, signOutPending, now,
                   generated>>
    /\ UNCHANGED dictVars
    /\ UNCHANGED exportVars
    /\ UNCHANGED <<keyVars, authVars>>

\* uploadedFile ? uploadedFile.name : (content.length > 30 ? content.slice(0, 30) + '...' : content)
TitleOf(c, file) ==
    IF file # Null THEN file.name
    ELSE IF Len(c) > TitleLimit THEN Slice0(c, TitleLimit) \o <<".", ".", ".">> ELSE c

\* Mutant of NewHistoryItem: the time level is read when the item is made,
\* not taken from the request.
NewHistoryItemCurrentTime(inv, revision, clock) ==
    [id |-> ToString(clock), timestamp |-> clock, title |-> TitleOf(inv.content, inv.file),
     result |-> revision, time |-> time]

NewHistoryItem(inv, revision, clock) ==
    [id |-> ToString(clock), timestamp |-> clock, title |-> TitleOf(inv.content, inv.file),
     result |-> revision, time |-> inv.time]

\* Mutant of Prepend: the new item is put last.
PrependAtEnd(item, prev) == Slice0(prev \o <<item>>, HistoryCapacity)

\* setHistory(prev => [newHistoryItem, ...prev].slice(0, 15))
Prepend(item, prev) == Slice0(<<item>> \o prev, HistoryCapacity)

\* String.prototype.includes on the messages of the model: the text of the
\* condition alone or inside the provider's longer message.
Includes(message, needle) ==
    \/ message = needle
    \/ message = ApiNotFoundMsg /\ needle = EntityNotFoundMsg

\* Mutant of OpensSelectKey: the dialog is opened on every failure.
OpensSelectKeyAlways(message) == TRUE

\* if (err.message?.includes("Requested entity was not found")) window.aistudio?.openSelectKey()
OpensSelectKey(message) == Includes(message, EntityNotFoundMsg)

\* Mutant of GenerateFailed: the catch also drops the active artifact.
GenerateFailedClearsResult ==
    /\ error' = BottleneckMsg
    /\ result' = Null
    /\ UNCHANGED <<history, generated>>

\* catch (err): setError("AI Engine encountered a bottleneck. ...")
GenerateFailed ==
    /\ error' = BottleneckMsg
    /\ UNCHANGED <<result, history, generated>>

\* Mutant of GenerateResolve: a failed call is issued once more before the
\* catch is reached.
GenerateResolveRetries(inv, resp) ==
    /\ BagIn(inv, gen)
    /\ inv.pc = "calling"
    /\ LET r == generateRevision(resp)
           item == NewHistoryItem(inv, r.value, now)
       IN IF r.ok
          THEN /\ result' = r.value
               /\ history' = Prepend(item, history)
               /\ generated' = Append(generated, item)
               /\ loading' = FALSE
               /\ gen' = gen (-) One(inv)
               /\ UNCHANGED <<error, selectKeyOpen>>
          ELSE IF inv.calls < 2
          THEN /\ gen' = (gen (-) One(inv)) (+) One([inv EXCEPT !.calls = inv.calls + 1])
               /\ UNCHANGED <<result, history, generated, loading, error, selectKeyOpen>>
          ELSE /\ GenerateFailed
               /\ selectKeyOpen' = (selectKeyOpen \/ OpensSelectKey(r.message))
               /\ loading' = FALSE
               /\ gen' = gen (-) One(inv)
    /\ UNCHANGED <<isAuthenticated, inputVars, userAnswers, chatMessages, isTutorThinking,
                   ask, signOutPending, now>>
    /\ UNCHANGED dictVars
    /\ UNCHANGED exportVars
    /\ UNCHANGED authVars

\* Mutant of GenerateResolve: setLoading(false) at the end of the try instead
\* of in a finally.
GenerateResolveNoFinally(inv, resp) ==
    /\ BagIn(inv, gen)
    /\ inv.pc = "calling"
    /\ LET r == generateRevision(resp)
           item == NewHistoryItem(inv, r.value, now)
       IN IF r.ok
          THEN /\ result' = r.value
               /\ history' = Prepend(item, history)
               /\ generated' = Append(generated, item)
               /\ loading' = FALSE
               /\ UNCHANGED <<error, selectKeyOpen>>
          ELSE /\ GenerateFailed
               /\ selectKeyOpen' = (selectKeyOpen \/ OpensSelectKey(r.message))
               /\ UNCHANGED <<loading>>
    /\ gen' = gen (-) One(inv)
    /\ UNCHANGED <<isAuthenticated, inputVars, userAnswers, chatMessages, isTutorThinking,
                   ask, signOutPending, now>>
    /\ UNCHANGED dictVars
    /\ UNCHANGED exportVars
    /\ UNCHANGED authVars

\* generateRevision settled: the rest of the try, the catch and the finally.
GenerateResolve(inv, resp) ==
    /\ BagIn(inv, gen)
    /\ inv.pc = "calling"
    /\ LET r == generateRevision(resp)
           item == NewHistoryItem(inv, r.value, now)
       IN IF r.ok
          THEN /\ result' = r.value
               /\ history' = Prepend(item, history)
               /\ generated' = Append(generated, item)
               /\ UNCHANGED <<error, selectKeyOpen>>
          ELSE /\ GenerateFailed
               /\ selectKeyOpen' = (selectKeyOpen \/ OpensSelectKey(r.message))
    /\ loading' = FALSE
    /\ gen' = gen (-) One(inv)
    /\ UNCHANGED <<isAuthenticated, inputVars, userAnswers, chatMessages, isTutorThinking,
                   ask, signOutPending, now>>
    /\ UNCHANGED dictVars
    /\ UNCHANGED exportVars
    /\ UNCHANGED authVars

(***************************************************************************)
(* The library panel and the practice arena.                               *)
(***************************************************************************)
\* Mutant of SelectHistory: the item selected is taken out of the list.
SelectHistoryTakes(i) ==
    /\ isAuthenticated
    /\ i \in 1..Len(history)
    /\ result' = history[i].result
    /\ history' = SubSeq(history, 1, i - 1) \o SubSeq(history, i + 1, Len(history))
    /\ chatMessages' = <<>>
    /\ userAnswers' = <<>>
    /\ UNCHANGED <<isAuthenticated, inputVars, loading, error, isTutorThinking,
                   procVars, now, generated>>
    /\ UNCHANGED dictVars
    /\ UNCHANGED exportVars
    /\ UNCHANGED <<keyVars, authVars>>

\* onClick={() => { setResult(item.result); setChatMessages([]); setUserAnswers({}); }}
SelectHistory(i) ==
    /\ isAuthenticated
    /\ i \in 1..Len(history)
    /\ result' = history[i].result
    /\ chatMessages' = <<>>
    /\ userAnswers' = <<>>
    /\ UNCHANGED <<isAuthenticated, inputVars, loading, history, error, isTutorThinking,
                   procVars, now, generated>>
    /\ UNCHANGED dictVars
    /\ UNCHANGED exportVars
    /\ UNCHANGED <<keyVars, authVars>>

\* Mutant of OptionButtonEnabled: the buttons are never disabled.
OptionButtonAlwaysEnabled(mcqIdx) == TRUE

\* The option buttons of one MCQ: disabled={isSelected}
OptionButtonEnabled(mcqIdx) == mcqIdx \notin DOMAIN userAnswers

\* setUserAnswers(prev => ({ ...prev, [mcqIdx]: optIdx }))
handleOptionSelect(prev, mcqIdx, optIdx) == (mcqIdx :> optIdx) @@ prev

HandleOptionSelect(mcqIdx, optIdx) ==
    /\ isAuthenticated
    /\ result # Null
    /\ mcqIdx \in 0..(Len(result.mcqs) - 1)
    /\ optIdx \in 0..(Len(result.mcqs[mcqIdx + 1].options) - 1)
    /\ mcqIdx < MaxMcqIdx
    /\ OptionButtonEnabled(mcqIdx)
    /\ userAnswers' = handleOptionSelect(userAnswers, mcqIdx, optIdx)
    /\ UNCHANGED <<isAuthenticated, inputVars, loading, result, history, error,
                   chatMessages, isTutorThinking, procVars, now, generated>>
    /\ UNCHANGED dictVars
    /\ UNCHANGED exportVars
    /\ UNCHANGED <<keyVars, authVars>>

(***************************************************************************)
(* Export: the export modal, constructMarkdown and handleDownload.  A      *)
(* document is the sequence of the pieces of text appended to it.          *)
(***************************************************************************)
\* The profile of the signed-in student, as far as the report shows it.
Profile ==
    [name |-> "Student", studentId |-> "ID-882910",
     university |-> "Global Institute of Technology"]

\* The character that opens and closes inline code.
Backtick == "(backtick)"

RECURSIVE Concat(_)
Concat(ss) == IF ss = <<>> THEN <<>> ELSE Head(ss) \o Concat(Tail(ss))

\* The part of the document written under if (exportOptions.includeMCQs).
McqSection(res) ==
    <<"\n## Practice Arena (MCQs)\n">> \o
    Concat([i \in 1..Len(res.mcqs) |->
        LET m == res.mcqs[i]
        IN <<"### Q", ToString(i), ": ", m.question, "\n">> \o
           Concat([j \in 1..Len(m.options) |->
               <<"  ", IF j - 1 = m.correctAnswerIndex THEN "* [x]" ELSE "* [ ]", " ",
                 m.options[j], "\n">>]) \o
           <<"\n**Explanation:** ", m.explanation, "\n\n">>])

\* Mutant of constructMarkdown: the practice questions are always written.
constructMarkdownAlwaysMCQs(res, options, clock) ==
    <<"# Academic Revision Report\n">> \o
    <<"**Student:** ", Profile.name, " (", Profile.studentId, ")\n">> \o
    <<"**University:** ", Profile.university, "\n">> \o
    <<"**Date:** ", ToString(clock), "\n\n">> \o
    <<"## Revision Blitz\n", res.revisionNotes, "\n\n">> \o
    <<"## Glossary\n">> \o
    Concat([i \in 1..Len(res.definitions) |->
        <<"* **", res.definitions[i].term, "**: ", res.definitions[i].definition, "\n">>]) \o
    <<"\n## Formula Vault\n">> \o
    Concat([i \in 1..Len(res.formulas) |-> <<"* ", Backtick, res.formulas[i], Backtick, "\n">>]) \o
    <<"\n## Exam Strategy\n">> \o
    Concat([i \in 1..Len(res.examTips) |-> <<ToString(i), ". ", res.examTips[i], "\n">>]) \o
    McqSection(res) \o
    <<"\n---\nGenerated by LastMinute AI Assistant">>

\* constructMarkdown(res), with the export options and the date it reads.
constructMarkdown(res, options, clock) ==
    <<"# Academic Revision Report\n">> \o
    <<"**Student:** ", Profile.name, " (", Profile.studentId, ")\n">> \o
    <<"**University:** ", Profile.university, "\n">> \o
    <<"**Date:** ", ToString(clock), "\n\n">> \o
    <<"## Revision Blitz\n", res.revisionNotes, "\n\n">> \o
    <<"## Glossary\n">> \o
    Concat([i \in 1..Len(res.definitions) |->
        <<"* **", res.definitions[i].term, "**: ", res.definitions[i].definition, "\n">>]) \o
    <<"\n## Formula Vault\n">> \o
    Concat([i \in 1..Len(res.formulas) |-> <<"* ", Backtick, res.formulas[i], Backtick, "\n">>]) \o
    <<"\n## Exam Strategy\n">> \o
    Concat([i \in 1..Len(res.examTips) |-> <<ToString(i), ". ", res.examTips[i], "\n">>]) \o
    (IF options.includeMCQs THEN McqSection(res) ELSE <<>>) \o
    <<"\n---\nGenerated by LastMinute AI Assistant">>

\* The export button of the result view: onClick={() => setIsExportModalOpen(true)}
OpenExportModal ==
    /\ isAuthenticated
    /\ result # Null
    /\ ~isExportModalOpen
    /\ isExportModalOpen' = TRUE
    /\ UNCHANGED <<isAuthenticated, inputVars, sessionVars, procVars, now, generated,
                   dictVars, exportOptions, downloads>>
    /\ UNCHANGED <<keyVars, authVars>>

\* The checkbox of the modal: setExportOptions({...exportOptions, includeMCQs: e.target.checked})
SetIncludeMCQs(checked) ==
    /\ isAuthenticated
    /\ isExportModalOpen
    /\ exportOptions.includeMCQs # checked
    /\ exportOptions' = [exportOptions EXCEPT !.includeMCQs = checked]
    /\ UNCHANGED <<isAuthenticated, inputVars, sessionVars, procVars, now, generated,
                   dictVars, isExportModalOpen, downloads>>
    /\ UNCHANGED <<keyVars, authVars>>

\* handleDownload(format): the document goes into a Blob that is downloaded.
HandleDownload(format) ==
    /\ isAuthenticated
    /\ isExportModalOpen
    /\ Len(downloads) < MaxDownloads
    /\ IF result = Null
       THEN UNCHANGED <<isExportModalOpen, downloads>>
       ELSE /\ downloads' = Append(downloads,
                                   [format |-> format, options |-> exportOptions,
                                    artifact |-> result,
                                    text |-> constructMarkdown(result, exportOptions, now)])
            /\ isExportModalOpen' = FALSE
    /\ UNCHANGED <<isAuthenticated, inputVars, sessionVars, procVars, now, generated,
                   dictVars, exportOptions>>
    /\ UNCHANGED <<keyVars, authVars>>

(***************************************************************************)
(* handleAskTutor                                                          *)
(***************************************************************************)
UserTurn(t) == [role |-> "user", text |-> t]
ModelTurn(t) == [role |-> "model", text |-> t]

\* Mutant of AskRejected: the guard without the test of result.
AskRejectedIgnoresResult == Trim(tutorInput) = <<>> \/ isTutorThinking

\* Mutant of AskRejected: the guard without isTutorThinking.
AskRejectedIgnoresThinking == Trim(tutorInput) = <<>> \/ result = Null

\* if (!tutorInput.trim() || !result || isTutorThinking) return;
AskRejected == Trim(tutorInput) = <<>> \/ result = Null \/ isTutorThinking

\* Mutant of TutorRequest: the history already holds the new question.
TutorRequestWithQuestion(question, chatHistory) ==
    [history |-> [i \in 1..(Len(chatHistory) + 1) |->
                    IF i <= Len(chatHistory)
                    THEN [role |-> chatHistory[i].role,
                          parts |-> <<[text |-> chatHistory[i].text]>>]
                    ELSE [role |-> "user", parts |-> <<[text |-> question]>>]],
     message |-> question]

\* What askTutor hands to the model: chats.create({ history: chatHistory.map(...) })
\* and chat.sendMessage({ message: question }).
TutorRequest(question, chatHistory) ==
    [history |-> [i \in 1..Len(chatHistory) |->
                    [role |-> chatHistory[i].role,
                     parts |-> <<[text |-> chatHistory[i].text]>>]],
     message |-> question]

\* Up to the await of askTutor.  onSubmit of the tutor form: the handler
\* checks again everything the submit button checks.
HandleAskTutor ==
    /\ isAuthenticated
    /\ IF AskRejected
       THEN UNCHANGED <<tutorInput, chatMessages, isTutorThinking, ask>>
       ELSE /\ BagCardinality(ask) < MaxAsks
            /\ Len(chatMessages) < MaxChatLen
            /\ tutorInput' = <<>>
            /\ chatMessages' = Append(chatMessages, UserTurn(tutorInput))
            /\ isTutorThinking' = TRUE
            /\ ask' = ask (+) One([pc |-> "calling", question |-> tutorInput,
                                   content |-> content, result |-> result,
                                   chatHistory |-> chatMessages, calls |-> 1,
                                   sent |-> TutorRequest(tutorInput, chatMessages)])
    /\ UNCHANGED <<isAuthenticated, content, time, uploadedFile, loading, result, history,
                   error, userAnswers, gen, signOutPending, now, generated>>
    /\ UNCHANGED dictVars
    /\ UNCHANGED exportVars
    /\ UNCHANGED <<keyVars, authVars>>

\* The assistant turn handleAskTutor appends for an outcome of askTutor.
ReplyTurn(r) == IF r.ok THEN ModelTurn(r.value) ELSE ModelTurn(FallbackText)

\* Mutant of AppendReply: the catch appends nothing.
AppendReplyOnSuccessOnly(prev, r) == IF r.ok THEN Append(prev, ModelTurn(r.value)) ELSE prev

\* Mutant of AppendReply: the catch replaces the chat by the fallback turn.
AppendReplyRestartsOnError(prev, r) ==
    IF r.ok THEN Append(prev, ModelTurn(r.value)) ELSE <<ModelTurn(FallbackText)>>

\* setChatMessages(prev => [...prev, { role: 'model', text: ... }]) of the try
\* or of the catch
AppendReply(prev, r) == Append(prev, ReplyTurn(r))

\* askTutor settled: the rest of the try, the catch and the finally.
AskResolve(inv, resp) ==
    /\ BagIn(inv, ask)
    /\ inv.pc = "calling"
    /\ chatMessages' = AppendReply(chatMessages, askTutor(resp))
    /\ isTutorThinking' = FALSE
    /\ ask' = ask (-) One(inv)
    /\ UNCHANGED <<isAuthenticated, inputVars, loading, result, history, error,
                   userAnswers, gen, signOutPending, now, generated>>
    /\ UNCHANGED dictVars
    /\ UNCHANGED exportVars
    /\ UNCHANGED <<keyVars, authVars>>

(***************************************************************************)
(* Dictation: startDictation, the callbacks of the live connection and     *)
(* stopDictation.  A stream is "live" or "stopped", an audio context       *)
(* "open" or "closed"; a session is "connecting", "open", "closing",       *)
(* "closed" or "failed" (its promise rejected), and closeRequested holds   *)
(* while a then(session => session.close()) waits on its promise.          *)
(***************************************************************************)
\* Whether track.stop() throws: there is a track only if a stream is held.
TrackStopOutcomes == IF streamRef = 0 THEN {FALSE} ELSE BOOLEAN

\* stopDictation, run on the sessions ss.  An exception of track.stop()
\* leaves the function after the first if.
stopDictation(throws, ss) ==
    /\ sessions' = IF liveSessionRef # 0
                   THEN [ss EXCEPT ![liveSessionRef].closeRequested = TRUE]
                   ELSE ss
    /\ liveSessionRef' = 0
    /\ IF throws
       THEN UNCHANGED <<streamRef, streams, audioContextRef, contexts, isDictating>>
       ELSE /\ streams' = IF streamRef # 0
                          THEN [streams EXCEPT ![streamRef] = "stopped"] ELSE streams
            /\ streamRef' = 0
            /\ contexts' = IF audioContextRef # 0
                           THEN [contexts EXCEPT ![audioContextRef] = "closed"]
                           ELSE contexts
            /\ audioContextRef' = 0
            /\ isDictating' = FALSE

\* The dictation button: onClick={() => isDictating ? stopDictation() : startDictation()}
\* Up to the await of ensureApiKey.
StartDictation ==
    /\ isAuthenticated
    /\ ~isDictating
    /\ BagCardinality(dict) + Len(streams) < MaxDictations
    /\ dict' = dict (+) One([pc |-> "ensureKey"])
    /\ UNCHANGED <<isAuthenticated, inputVars, sessionVars, procVars, now, generated,
                   isDictating, liveSessionRef, audioContextRef, streamRef, streams,
                   contexts, sessions>>
    /\ UNCHANGED exportVars
    /\ UNCHANGED <<keyVars, authVars>>

StopDictation(throws) ==
    /\ isAuthenticated
    /\ isDictating
    /\ throws \in TrackStopOutcomes
    /\ stopDictation(throws, sessions)
    /\ UNCHANGED <<isAuthenticated, inputVars, sessionVars, procVars, now, generated, dict>>
    /\ UNCHANGED exportVars
    /\ UNCHANGED <<keyVars, authVars>>

\* ensureApiKey resolved: the call of getUserMedia.
DictEnsureKeyResolve(inv) ==
    /\ BagIn(inv, dict)
    /\ inv.pc = "ensureKey"
    /\ dict' = (dict (-) One(inv)) (+) One([inv EXCEPT !.pc = "getUserMedia"])
    /\ UNCHANGED <<isAuthenticated, inputVars, sessionVars, procVars, now, generated,
                   isDictating, liveSessionRef, audioContextRef, streamRef, streams,
                   contexts, sessions>>
    /\ UNCHANGED exportVars
    /\ UNCHANGED <<keyVars, authVars>>

\* ensureApiKey or getUserMedia rejected: the catch of startDictation.
StartDictationReject(inv) ==
    /\ BagIn(inv, dict)
    /\ dict' = dict (-) One(inv)
    /\ error' = MicMsg
    /\ UNCHANGED <<isAuthenticated, inputVars, loading, result, history, userAnswers,
                   chatMessages, isTutorThinking, procVars, now, generated,
                   isDictating, liveSessionRef, audioContextRef, streamRef, streams,
                   contexts, sessions>>
    /\ UNCHANGED exportVars
    /\ UNCHANGED <<keyVars, authVars>>

\* getUserMedia resolved: the stream is kept, the audio context is created
\* (ctxOk) or its constructor throws, and the live connection is started.
GetUserMediaResolve(inv, ctxOk) ==
    /\ BagIn(inv, dict)
    /\ inv.pc = "getUserMedia"
    /\ dict' = dict (-) One(inv)
    /\ streams' = Append(streams, "live")
    /\ streamRef' = Len(streams) + 1
    /\ IF ctxOk
       THEN /\ contexts' = Append(contexts, "open")
            /\ audioContextRef' = Len(contexts) + 1
            /\ sessions' = Append(sessions, [state |-> "connecting",
                                             closeRequested |-> FALSE])
            /\ liveSessionRef' = Len(sessions) + 1
            /\ UNCHANGED <<error>>
       ELSE /\ error' = MicMsg
            /\ UNCHANGED <<contexts, audioContextRef, sessions, liveSessionRef>>
    /\ UNCHANGED <<isAuthenticated, inputVars, loading, result, history, userAnswers,
                   chatMessages, isTutorThinking, procVars, now, generated, isDictating>>
    /\ UNCHANGED exportVars
    /\ UNCHANGED <<keyVars, authVars>>

\* onopen: () => { setIsDictating(true); ... }
OnOpen(k) ==
    /\ k \in 1..Len(sessions)
    /\ sessions[k].state = "connecting"
    /\ sessions' = [sessions EXCEPT ![k].state = "open"]
    /\ isDictating' = TRUE
    /\ UNCHANGED <<isAuthenticated, inputVars, sessionVars, procVars, now, generated,
                   liveSessionRef, audioContextRef, streamRef, streams, contexts, dict>>
    /\ UNCHANGED exportVars
    /\ UNCHANGED <<keyVars, authVars>>

\* The promise of ai.live.connect rejects without the connection being opened.
ConnectRejects(k) ==
    /\ k \in 1..Len(sessions)
    /\ sessions[k].state = "connecting"
    /\ sessions' = [sessions EXCEPT ![k].state = "failed"]
    /\ UNCHANGED <<isAuthenticated, inputVars, sessionVars, procVars, now, generated,
                   isDictating, liveSessionRef, audioContextRef, streamRef, streams,
                   contexts, dict>>
    /\ UNCHANGED exportVars
    /\ UNCHANGED <<keyVars, authVars>>

\* onerror: (e) => { console.error(...); stopDictation(); } on a connection
\* that then closes.
OnError(k, throws) ==
    /\ k \in 1..Len(sessions)
    /\ sessions[k].state \in {"connecting", "open"}
    /\ throws \in TrackStopOutcomes
    /\ stopDictation(throws, [sessions EXCEPT ![k].state = "closing"])
    /\ UNCHANGED <<isAuthenticated, inputVars, sessionVars, procVars, now, generated, dict>>
    /\ UNCHANGED exportVars
    /\ UNCHANGED <<keyVars, authVars>>

\* onclose: () => { setIsDictating(false); }
OnClose(k) ==
    /\ k \in 1..Len(sessions)
    /\ sessions[k].state \in {"open", "closing"}
    /\ sessions' = [sessions EXCEPT ![k].state = "closed"]
    /\ isDictating' = FALSE
    /\ UNCHANGED <<isAuthenticated, inputVars, sessionVars, procVars, now, generated,
                   liveSessionRef, audioContextRef, streamRef, streams, contexts, dict>>
    /\ UNCHANGED exportVars
    /\ UNCHANGED <<keyVars, authVars>>

\* liveSessionRef.current.then((session) => session.close()) on a resolved
\* promise: close() closes the connection or throws.
ThenClose(k, fails) ==
    /\ k \in 1..Len(sessions)
    /\ sessions[k].state = "open"
    /\ sessions[k].closeRequested
    /\ sessions' = [sessions EXCEPT ![k].closeRequested = FALSE,
                                    ![k].state = IF fails THEN "open" ELSE "closing"]
    /\ UNCHANGED <<isAuthenticated, inputVars, sessionVars, procVars, now, generated,
                   isDictating, liveSessionRef, audioContextRef, streamRef, streams,
                   contexts, dict>>
    /\ UNCHANGED exportVars
    /\ UNCHANGED <<keyVars, authVars>>

(***************************************************************************)
(* Identity: the auth-state subscription and handleLogout.                 *)
(***************************************************************************)
\* The callback of the subscription, run with the user of a notification:
\* if (user && user.emailVerified) setIsAuthenticated(true) else setIsAuthenticated(false)
Notified(user) ==
    /\ isAuthenticated' = (user = "verified")
    /\ lastNotified' = user

\* onAuthStateChanged(auth, (user) => ...): the provider's user changes
\* outside the handlers of this page (a restored session, another tab).
OnAuthStateChanged(user) ==
    /\ currentUser' = user
    /\ Notified(user)
    /\ isAuthenticated' # isAuthenticated
    /\ UNCHANGED <<inputVars, sessionVars, procVars, now, generated>>
    /\ UNCHANGED dictVars
    /\ UNCHANGED exportVars
    /\ UNCHANGED <<keyVars, isAuthenticating, showVerificationScreen, authError, login>>

\* The message the catch of handleLogin shows for err.code.
LoginErrorMessage(code) ==
    IF code \in {"auth/invalid-credential", "auth/wrong-password", "auth/user-not-found"}
    THEN InvalidCredentialsMsg
    ELSE IF code = "auth/too-many-requests" THEN TooManyAttemptsMsg
    ELSE IF code = "auth/network-request-failed" THEN AuthNetworkMsg
    ELSE AuthFailedMsg

\* Up to the await of signInWithEmailAndPassword.  The login form is shown
\* while the session is not authenticated and the verification screen is
\* not up; its submit button is disabled={isAuthenticating}.
HandleLogin ==
    /\ ~isAuthenticated
    /\ ~showVerificationScreen
    /\ ~isAuthenticating
    /\ authError' = NoError
    /\ isAuthenticating' = TRUE
    /\ login' = login (+) One([pc |-> "signIn"])
    /\ UNCHANGED <<isAuthenticated, inputVars, sessionVars, procVars, now, generated>>
    /\ UNCHANGED dictVars
    /\ UNCHANGED exportVars
    /\ UNCHANGED <<keyVars, currentUser, lastNotified, showVerificationScreen>>

\* signInWithEmailAndPassword resolved: the provider holds the user and
\* notifies the subscription; the try goes on to the finally for a verified
\* user, and for an unverified one up to the await of signOut.
SignInResolve(inv, user) ==
    /\ BagIn(inv, login)
    /\ inv.pc = "signIn"
    /\ currentUser' = user
    /\ Notified(user)
    /\ IF user = "verified"
       THEN /\ login' = login (-) One(inv)
            /\ isAuthenticating' = FALSE
            /\ UNCHANGED <<authError, showVerificationScreen>>
       ELSE /\ authError' = NotVerifiedMsg
            /\ showVerificationScreen' = TRUE
            /\ login' = (login (-) One(inv)) (+) One([inv EXCEPT !.pc = "signOut"])
            /\ UNCHANGED <<isAuthenticating>>
    /\ UNCHANGED <<inputVars, sessionVars, procVars, now, generated>>
    /\ UNCHANGED dictVars
    /\ UNCHANGED exportVars
    /\ UNCHANGED keyVars

\* signInWithEmailAndPassword rejected: the catch and the finally.
SignInReject(inv, code) ==
    /\ BagIn(inv, login)
    /\ inv.pc = "signIn"
    /\ authError' = LoginErrorMessage(code)
    /\ isAuthenticating' = FALSE
    /\ login' = login (-) One(inv)
    /\ UNCHANGED <<isAuthenticated, inputVars, sessionVars, procVars, now, generated>>
    /\ UNCHANGED dictVars
    /\ UNCHANGED exportVars
    /\ UNCHANGED <<keyVars, currentUser, lastNotified, showVerificationScreen>>

\* The signOut of handleLogin resolved: the provider drops the user and
\* notifies the subscription; the finally.
LoginSignOutResolve(inv) ==
    /\ BagIn(inv, login)
    /\ inv.pc = "signOut"
    /\ currentUser' = "none"
    /\ Notified("none")
    /\ isAuthenticating' = FALSE
    /\ login' = login (-) One(inv)
    /\ UNCHANGED <<inputVars, sessionVars, procVars, now, generated>>
    /\ UNCHANGED dictVars
    /\ UNCHANGED exportVars
    /\ UNCHANGED <<keyVars, showVerificationScreen, authError>>

\* The signOut of handleLogin rejected: the catch and the finally.
LoginSignOutReject(inv, code) ==
    /\ BagIn(inv, login)
    /\ inv.pc = "signOut"
    /\ authError' = LoginErrorMessage(code)
    /\ isAuthenticating' = FALSE
    /\ login' = login (-) One(inv)
    /\ UNCHANGED <<isAuthenticated, inputVars, sessionVars, procVars, now, generated>>
    /\ UNCHANGED dictVars
    /\ UNCHANGED exportVars
    /\ UNCHANGED <<keyVars, currentUser, lastNotified, showVerificationScreen>>

\* "Return to Login" on the verification screen:
\* onClick={() => { setShowVerificationScreen(false); setIsSignUp(false); setAuthError(null); }}
ReturnToLogin ==
    /\ ~isAuthenticated
    /\ showVerificationScreen
    /\ showVerificationScreen' = FALSE
    /\ authError' = NoError
    /\ UNCHANGED <<isAuthenticated, inputVars, sessionVars, procVars, now, generated>>
    /\ UNCHANGED dictVars
    /\ UNCHANGED exportVars
    /\ UNCHANGED <<keyVars, currentUser, lastNotified, isAuthenticating, login>>

\* The promise of openSelectKey settles: the dialog is gone.
SelectKeyResolve ==
    /\ selectKeyOpen
    /\ selectKeyOpen' = FALSE
    /\ UNCHANGED <<isAuthenticated, inputVars, sessionVars, procVars, now, generated>>
    /\ UNCHANGED dictVars
    /\ UNCHANGED exportVars
    /\ UNCHANGED authVars

\* Up to the await of signOut.
HandleLogout ==
    /\ isAuthenticated
    /\ signOutPending < MaxSignOut
    /\ signOutPending' = signOutPending + 1
    /\ UNCHANGED <<isAuthenticated, inputVars, sessionVars, gen, ask, now, generated>>
    /\ UNCHANGED dictVars
    /\ UNCHANGED exportVars
    /\ UNCHANGED <<keyVars, authVars>>

\* signOut settled: the resets of the try, stopDictation among them (an
\* exception of it skips the resets after it), or the catch that only logs.
SignOutResolve(ok) ==
    /\ signOutPending > 0
    /\ signOutPending' = signOutPending - 1
    /\ IF ok
       THEN \E throws \in TrackStopOutcomes :
               /\ currentUser' = "none"
               /\ lastNotified' = "none"
               /\ isAuthenticated' = FALSE
               /\ showVerificationScreen' = FALSE
               /\ result' = Null
               /\ chatMessages' = <<>>
               /\ stopDictation(throws, sessions)
               /\ IF throws
                  THEN UNCHANGED <<uploadedFile, userAnswers, error, authError, content>>
                  ELSE /\ uploadedFile' = Null
                       /\ userAnswers' = <<>>
                       /\ error' = NoError
                       /\ authError' = NoError
                       /\ content' = <<>>
       ELSE UNCHANGED <<isAuthenticated, result, chatMessages, uploadedFile,
                           userAnswers, error, content, isDictating, liveSessionRef,
                           audioContextRef, streamRef, streams, contexts, sessions,
                           currentUser, lastNotified, showVerificationScreen, authError>>
    /\ UNCHANGED <<time, tutorInput, loading, history, isTutorThinking, gen, ask, now,
                   generated, dict>>
    /\ UNCHANGED exportVars
    /\ UNCHANGED <<keyVars, isAuthenticating, login>>

(***************************************************************************)
(* Specifications.                                                         *)
(***************************************************************************)
\* What every specification of the session shares: a verified sign-in, the
\* material, generation, the library and logout.
SessionNext ==
    \/ OnAuthStateChanged("verified")
    \/ \E c \in FewContentInputs : SetContent(c)
    \/ HandleGenerate(MaxGenerations)
    \/ \E inv \in BagToSet(gen) : EnsureApiKeyResolve(inv)
    \/ \E inv \in BagToSet(gen) : EnsureApiKeyReject(inv)
    \/ \E inv \in BagToSet(gen) : \E resp \in FewGenResponses : GenerateResolve(inv, resp)
    \/ \E i \in 1..HistoryCapacity : SelectHistory(i)
    \/ HandleLogout
    \/ \E ok \in BOOLEAN : SignOutResolve(ok)

\* The session with the practice arena.
Next ==
    \/ SessionNext
    \/ \E m \in 0..MaxMcqIdx : \E o \in 0..2 : HandleOptionSelect(m, o)

Spec == Init /\ [][Next]_vars

\* The external model call settles: every outstanding generateRevision
\* eventually returns or throws.
GenerationSettles ==
    \E inv \in BagToSet(gen) : \E resp \in FewGenResponses : GenerateResolve(inv, resp)

SpecFair == Init /\ [][Next]_vars /\ WF_vars(GenerationSettles)

\* The session with the tutor.
NextTutor ==
    \/ SessionNext
    \/ \E t \in FewTutorInputs : SetTutorInput(t)
    \/ HandleAskTutor
    \/ \E inv \in BagToSet(ask) : \E resp \in TutorResponses : AskResolve(inv, resp)

SpecTutor == Init /\ [][NextTutor]_vars

\* Generation alone, with every kind of material and of response; the
\* responses that open the key dialog are those of NextKey.
NextInput ==
    \/ \E u \in AuthUsers : OnAuthStateChanged(u)
    \/ \E c \in ContentInputs : SetContent(c)
    \/ \E t \in RevisionTime : SetTime(t)
    \/ \E f \in FileInputs : HandleFileUpload(f)
    \/ RemoveFile
    \/ HandleGenerate(MaxInputGenerations)
    \/ \E inv \in BagToSet(gen) : EnsureApiKeyResolve(inv)
    \/ \E inv \in BagToSet(gen) : EnsureApiKeyReject(inv)
    \/ \E inv \in BagToSet(gen) : \E resp \in GenResponses \ NotFoundResponses :
          GenerateResolve(inv, resp)

SpecInput == Init /\ [][NextInput]_vars

\* Generation with every kind of response, and the key dialog.
NextKey ==
    \/ OnAuthStateChanged("verified")
    \/ \E c \in FewContentInputs : SetContent(c)
    \/ \E t \in RevisionTime : SetTime(t)
    \/ HandleGenerate(MaxGenerations)
    \/ \E inv \in BagToSet(gen) : EnsureApiKeyResolve(inv)
    \/ \E inv \in BagToSet(gen) : EnsureApiKeyReject(inv)
    \/ \E inv \in BagToSet(gen) : \E resp \in GenResponses : GenerateResolve(inv, resp)
    \/ SelectKeyResolve

SpecKey == Init /\ [][NextKey]_vars

\* Signing in and out.
NextAuth ==
    \/ HandleLogin
    \/ \E inv \in BagToSet(login) : \E user \in SignedInUsers : SignInResolve(inv, user)
    \/ \E inv \in BagToSet(login) : \E code \in AuthErrorCodes : SignInReject(inv, code)
    \/ \E inv \in BagToSet(login) : LoginSignOutResolve(inv)
    \/ \E inv \in BagToSet(login) : \E code \in SignOutErrorCodes : LoginSignOutReject(inv, code)
    \/ ReturnToLogin
    \/ \E user \in AuthUsers : OnAuthStateChanged(user)
    \/ \E c \in FewContentInputs : SetContent(c)
    \/ HandleLogout
    \/ \E ok \in BOOLEAN : SignOutResolve(ok)

SpecAuth == Init /\ [][NextAuth]_vars

\* Export of the artifact a generation produced.
ExportGenResponses ==
    { Rejected(NetworkErrorMsg), Replied(<<Doc(ArtifactA)>>), Replied(<<Doc(ArtifactB)>>),
      Replied(<<Doc(ArtifactBad)>>) }

NextExport ==
    \/ OnAuthStateChanged("verified")
    \/ \E c \in FewContentInputs : SetContent(c)
    \/ HandleGenerate(MaxInputGenerations)
    \/ \E inv \in BagToSet(gen) : EnsureApiKeyResolve(inv)
    \/ \E inv \in BagToSet(gen) : \E resp \in ExportGenResponses : GenerateResolve(inv, resp)
    \/ OpenExportModal
    \/ \E checked \in BOOLEAN : SetIncludeMCQs(checked)
    \/ HandleDownload("md")

SpecExport == Init /\ [][NextExport]_vars

\* Dictation, with the material and logout.
NextDictation ==
    \/ OnAuthStateChanged("verified")
    \/ \E c \in FewContentInputs : SetContent(c)
    \/ StartDictation
    \/ \E throws \in BOOLEAN : StopDictation(throws)
    \/ \E inv \in BagToSet(dict) : DictEnsureKeyResolve(inv)
    \/ \E inv \in BagToSet(dict) : StartDictationReject(inv)
    \/ \E inv \in BagToSet(dict) : \E ctxOk \in BOOLEAN : GetUserMediaResolve(inv, ctxOk)
    \/ \E k \in 1..MaxDictations : OnOpen(k)
    \/ \E k \in 1..MaxDictations : ConnectRejects(k)
    \/ \E k \in 1..MaxDictations : \E throws \in BOOLEAN : OnError(k, throws)
    \/ \E k \in 1..MaxDictations : OnClose(k)
    \/ \E k \in 1..MaxDictations : \E fails \in BOOLEAN : ThenClose(k, fails)
    \/ HandleLogout
    \/ \E ok \in BOOLEAN : SignOutResolve(ok)

SpecDictation == Init /\ [][NextDictation]_vars

\* A long run of generations under a running clock.
NextHist ==
    \/ OnAuthStateChanged("verified")
    \/ \E c \in FewContentInputs : SetContent(c)
    \/ HandleGenerate(MaxHistGenerations)
    \/ \E inv \in BagToSet(gen) : EnsureApiKeyResolve(inv)
    \/ \E inv \in BagToSet(gen) : \E resp \in HistGenResponses : GenerateResolve(inv, resp)
    \/ Tick

SpecHist == Init /\ [][NextHist]_vars

\* A long run of generations among the operations that leave the library
\* alone: selections, answers, asks and logout.
NextFrame ==
    \/ OnAuthStateChanged("verified")
    \/ \E c \in FewContentInputs : SetContent(c)
    \/ HandleGenerate(MaxHistGenerations)
    \/ \E inv \in BagToSet(gen) : EnsureApiKeyResolve(inv)
    \/ \E inv \in BagToSet(gen) : \E resp \in HistGenResponses : GenerateResolve(inv, resp)
    \/ \E i \in {1, HistoryCapacity} : SelectHistory(i)
    \/ HandleOptionSelect(0, 0)
    \/ \E t \in FewTutorInputs : SetTutorInput(t)
    \/ HandleAskTutor
    \/ \E inv \in BagToSet(ask) : AskResolve(inv, Replied(<<"r">>))
    \/ HandleLogout
    \/ SignOutResolve(TRUE)

SpecFrame == Init /\ [][NextFrame]_vars

(***************************************************************************)
(* Properties.                                                             *)
(***************************************************************************)
Min(a, b) == IF a < b THEN a ELSE b
Last(q) == q[Len(q)]
EmptySubmission == Trim(content) = <<>> /\ uploadedFile = Null
NoInvocationStarts == BagCardinality(gen') <= BagCardinality(gen)
AppendsUserTurn ==
    /\ Len(chatMessages') = Len(chatMessages) + 1
    /\ SubSeq(chatMessages', 1, Len(chatMessages)) = chatMessages
    /\ Last(chatMessages').role = "user"

\* C1: at no reachable state are two generateRevision calls outstanding.
C1_OneGenerationInFlight == BagCardinality(Calling) <= 1

\* C2: with empty (or blank) content and no file, no step starts an
\* invocation that reaches ensureApiKey or generateRevision, and every run of
\* handleGenerate sets the validation error and nothing else.
C2_EmptySubmissionRejected ==
    [][EmptySubmission =>
          /\ NoInvocationStarts
          /\ HandleGenerate(MaxInputGenerations) =>
                error' = ValidationMsg /\ gen' = gen /\ loading' = loading]_vars

C2_Witness ==
    /\ content = <<" ">>
    /\ uploadedFile = Null
    /\ error = ValidationMsg
    /\ gen = EmptyBag
    /\ generated = <<>>

\* C3: every step that changes the active artifact leaves the chat and the
\* answers empty.
C3_SwitchClearsChatAndAnswers ==
    [][result' # result => chatMessages' = <<>> /\ userAnswers' = <<>>]_vars

\* C4: once the session is reset and while it stays signed out, a late
\* response changes nothing: the artifact stays absent, the chat stays empty
\* and the history keeps its items.
C4_LateResponseDiscarded ==
    [][(~isAuthenticated /\ ~isAuthenticated') =>
          /\ result = Null => result' = Null
          /\ chatMessages = <<>> => chatMessages' = <<>>
          /\ history' = history]_vars

FailedGenResponses ==
    { Rejected(NetworkErrorMsg), Rejected(EntityNotFoundMsg), Replied(<<>>),
      Replied(<<Ws>>), Replied(<<Junk>>), Replied(<<Doc(ArtifactA), Doc(ArtifactA)>>) }

\* C6: a generation that fails leaves the active artifact as it was and sets
\* the bottleneck message.
C6_FailureKeepsArtifact ==
    [][\A inv \in BagToSet(gen) : \A resp \in FailedGenResponses :
          GenerateResolve(inv, resp) => result' = result /\ error' = BottleneckMsg]_vars

C6_Witness ==
    /\ result = ArtifactA
    /\ error = BottleneckMsg
    /\ Len(generated) = 1
    /\ gen = EmptyBag

\* C7: the history is the min(N, 15) generations created last, newest first.
C7_HistoryIsNewestFifteen ==
    /\ Len(history) = Min(Len(generated), HistoryCapacity)
    /\ \A i \in 1..Len(history) : history[i] = generated[Len(generated) + 1 - i]

C7_Witness ==
    /\ Len(generated) = HistoryCapacity + 1
    /\ Len(history) = HistoryCapacity
    /\ history[1] = generated[HistoryCapacity + 1]
    /\ history[HistoryCapacity] = generated[2]
    /\ generated[1].id # generated[2].id
    /\ generated[HistoryCapacity].id # generated[HistoryCapacity + 1].id

\* C8: at most one askTutor call is outstanding, and while one is, no step
\* starts another call or appends a user turn.
C8_AskSequential ==
    [][/\ BagCardinality(ask') <= 1
       /\ ask # EmptyBag =>
             /\ BagCardinality(ask') <= BagCardinality(ask)
             /\ ~AppendsUserTurn]_vars

C8_Witness ==
    /\ isAuthenticated
    /\ BagCardinality(Asking) = 1
    /\ result # Null
    /\ Trim(tutorInput) # <<>>
    /\ isTutorThinking

AssistantTexts == { <<"r">>, ApologyText, FallbackText }

C11_EmptyReplyIsFallback ==
    [][\A inv \in BagToSet(ask) : \A resp \in { Rejected(NetworkErrorMsg), Replied(<<>>) } :
          AskResolve(inv, resp) =>
              chatMessages' = Append(chatMessages, ModelTurn(FallbackText))]_vars

\* The Artifact Schema: every required field, 5 to 7 MCQs, each with an index
\* into its options, and a flowchart that starts with a root token (the
\* flowchart texts of the model are a root token or empty).
RequiredFields ==
    {"revisionNotes", "definitions", "formulas", "examTips", "mcqs", "flowchart"}
RootTokens == {"graph TD", "graph LR"}
isValidArtifact(raw) ==
    /\ RequiredFields \subseteq DOMAIN raw
    /\ Len(raw.mcqs) \in 5..7
    /\ \A i \in 1..Len(raw.mcqs) :
          raw.mcqs[i].correctAnswerIndex \in 0..(Len(raw.mcqs[i].options) - 1)
    /\ raw.flowchart \in RootTokens

\* C12: the active artifact, when there is one, and the artifact of every
\* history item satisfy the Artifact Schema.
C12_OnlyValidArtifacts ==
    /\ result # Null => isValidArtifact(result)
    /\ \A i \in 1..Len(history) : isValidArtifact(history[i].result)

\* C13: whatever signOut answers, the step that ends handleLogout leaves the
\* session idle: no artifact, no chat, no answers, no error, no content.
C13_LogoutResets ==
    [][\A ok \in BOOLEAN :
          SignOutResolve(ok) =>
              /\ result' = Null
              /\ chatMessages' = <<>>
              /\ userAnswers' = <<>>
              /\ error' = NoError
              /\ content' = <<>>]_vars

\* C16: a reply is appended only to the chat it was asked in: the artifact
\* is the one the question was asked about and the question is still the
\* turn it was appended as; any other reply leaves the chat as it is.
C16_ChatScopedToArtifact ==
    [][\A inv \in BagToSet(ask) : \A resp \in TutorResponses :
          AskResolve(inv, resp) =>
              \/ /\ inv.result = result
                 /\ Len(chatMessages) > Len(inv.chatHistory)
                 /\ SubSeq(chatMessages, 1, Len(inv.chatHistory) + 1) =
                        Append(inv.chatHistory, UserTurn(inv.question))
              \/ chatMessages' = chatMessages]_vars

\* The calls outstanding: the invocations suspended in generateRevision and
\* in askTutor.
Outstanding(g, a) == BagCardinality(Waiting(g, "calling")) + BagCardinality(Waiting(a, "calling"))

\* C14: the step that settles a call, successful or failed, ends the
\* invocation that issued it, which issued that one call and no other; a call
\* is issued only in the step that continues a submit past ensureApiKey or in
\* the step of an accepted ask.
C14_NoAutomaticRetries ==
    [][/\ \A inv \in BagToSet(gen) : \A resp \in FewGenResponses :
             GenerateResolve(inv, resp) => inv.calls = 1 /\ gen' = gen (-) One(inv)
       /\ \A inv \in BagToSet(ask) : \A resp \in TutorResponses :
             AskResolve(inv, resp) => inv.calls = 1 /\ ask' = ask (-) One(inv)
       /\ \A inv \in BagToSet(gen') \cup BagToSet(ask') : inv.calls <= 1
       /\ Outstanding(gen', ask') > Outstanding(gen, ask) =>
             \/ \E inv \in BagToSet(gen) : EnsureApiKeyResolve(inv)
             \/ ~AskRejected /\ HandleAskTutor]_vars

C14_Witness ==
    /\ gen = EmptyBag
    /\ ask = EmptyBag
    /\ result # Null
    /\ error = BottleneckMsg
    /\ chatMessages = <<UserTurn(<<"q">>), ModelTurn(FallbackText)>>

\* C15: the step that settles a dispatched generation, successful or failed,
\* leaves loading false, and since the call settles, loading never stays
\* true for ever.
C15_LoadingCleared ==
    /\ [][\A inv \in BagToSet(gen) : \A resp \in FewGenResponses :
             GenerateResolve(inv, resp) => loading' = FALSE]_vars
    /\ loading ~> ~loading

C15_Witness ==
    /\ ~loading
    /\ gen = EmptyBag
    /\ error = BottleneckMsg
    /\ result = Null
    /\ isAuthenticated

\* A step in which stopDictation runs: the click on the dictation button,
\* the onerror callback, or the resets of handleLogout.
StopDictationRuns ==
    \/ \E throws \in BOOLEAN : StopDictation(throws)
    \/ \E k \in 1..Len(sessions) : \E throws \in BOOLEAN : OnError(k, throws)
    \/ SignOutResolve(TRUE)

\* C17: every run of stopDictation, whichever release fails, leaves the
\* three handles released and dropped and isDictating false; a run that finds
\* everything released changes nothing.
C17_StopReleasesEverything ==
    [][StopDictationRuns =>
          /\ liveSessionRef' = 0 /\ streamRef' = 0 /\ audioContextRef' = 0
          /\ ~isDictating'
          /\ liveSessionRef # 0 => sessions'[liveSessionRef].closeRequested
          /\ streamRef # 0 => streams'[streamRef] = "stopped"
          /\ audioContextRef # 0 => contexts'[audioContextRef] = "closed"
          /\ (liveSessionRef = 0 /\ streamRef = 0 /\ audioContextRef = 0) =>
                 streams' = streams /\ contexts' = contexts]_vars

\* Dictation is starting or active: startDictation is running, a connection
\* is being opened, or isDictating holds.
DictationActive ==
    \/ isDictating
    \/ dict # EmptyBag
    \/ \E k \in 1..Len(sessions) : sessions[k].state = "connecting"

\* C18: while dictation is neither starting nor active, no microphone stream
\* is live and no audio context is open.
C18_NoHandleHeldWhenInactive ==
    ~DictationActive =>
        /\ \A k \in 1..Len(streams) : streams[k] = "stopped"
        /\ \A k \in 1..Len(contexts) : contexts[k] = "closed"

\* The headings of a report and the part of a document under a heading, up
\* to the next heading.
NotesHeading == "## Revision Blitz\n"
GlossaryHeading == "## Glossary\n"
FormulaHeading == "\n## Formula Vault\n"
TipsHeading == "\n## Exam Strategy\n"
McqHeading == "\n## Practice Arena (MCQs)\n"
Footer == "\n---\nGenerated by LastMinute AI Assistant"
KeptHeadings == {NotesHeading, GlossaryHeading, FormulaHeading, TipsHeading}
Headings == KeptHeadings \cup {McqHeading, Footer}
Section(text, h) ==
    LET at == {i \in 1..Len(text) : text[i] = h}
    IN IF at = {} THEN <<>>
       ELSE LET from == CHOOSE i \in at : \A j \in at : i <= j
                after == {j \in (from + 1)..Len(text) : text[j] \in Headings}
                to == IF after = {} THEN Len(text) + 1
                      ELSE CHOOSE j \in after : \A k \in after : j <= k
            IN SubSeq(text, from, to - 1)

\* The question, option and explanation texts of an artifact.
McqTexts(a) ==
    UNION {{a.mcqs[i].question, a.mcqs[i].explanation} \cup
           {a.mcqs[i].options[j] : j \in 1..Len(a.mcqs[i].options)} : i \in 1..Len(a.mcqs)}

\* C19: a document downloaded with the practice questions excluded holds no
\* MCQ text; two documents of one artifact have the same notes, glossary,
\* formula and tips sections whatever the option; and two documents of one
\* artifact that include the questions have the same MCQ section.
C19_ExportRoundTrip ==
    \A m \in 1..Len(downloads) : \A n \in m..Len(downloads) :
        LET d == downloads[m]
            e == downloads[n]
        IN /\ ~d.options.includeMCQs =>
                 /\ \A i \in 1..Len(d.text) : d.text[i] \notin McqTexts(d.artifact)
                 /\ Section(d.text, McqHeading) = <<>>
           /\ d.artifact = e.artifact =>
                 /\ \A h \in KeptHeadings :
                       Section(d.text, h) = Section(e.text, h) /\ Section(d.text, h) # <<>>
                 /\ (d.options.includeMCQs /\ e.options.includeMCQs) =>
                       /\ Section(d.text, McqHeading) = Section(e.text, McqHeading)
                       /\ Len(Section(d.text, McqHeading)) > Len(d.artifact.mcqs)

C19_Witness ==
    /\ Len(downloads) = 3
    /\ downloads[1].options.includeMCQs
    /\ ~downloads[2].options.includeMCQs
    /\ downloads[3].options.includeMCQs
    /\ downloads[1].artifact = ArtifactB
    /\ downloads[3].artifact = ArtifactB
    /\ downloads[1].text = downloads[3].text
    /\ Len(downloads[2].text) < Len(downloads[1].text)

\* C20: no two items of the history list have the same id.
C20_HistoryIdsUnique ==
    \A i \in 1..Len(history) : \A j \in 1..Len(history) :
        i # j => history[i].id # history[j].id

C22_FailureKeepsChatAndAnswers ==
    [][(\/ HandleGenerate(MaxGenerations)
        \/ \E inv \in BagToSet(gen) : EnsureApiKeyResolve(inv)
        \/ \E inv \in BagToSet(gen) : EnsureApiKeyReject(inv)
        \/ \E inv \in BagToSet(gen) : \E resp \in FailedGenResponses :
              GenerateResolve(inv, resp)) =>
          /\ chatMessages' = chatMessages
          /\ userAnswers' = userAnswers]_vars

\* C25: handleAskTutor run with no active artifact, with a blank question
\* or while an ask is outstanding changes nothing: no turn, no call, the
\* same input and thinking flag.
C25_AskGuard ==
    [][((Trim(tutorInput) = <<>> \/ result = Null \/ isTutorThinking) /\ HandleAskTutor) =>
          /\ chatMessages' = chatMessages
          /\ ask' = ask
          /\ tutorInput' = tutorInput
          /\ isTutorThinking' = isTutorThinking]_vars

C25_Witness ==
    /\ isAuthenticated
    /\ result = Null
    /\ Trim(tutorInput) # <<>>
    /\ ~isTutorThinking
    /\ chatMessages = <<>>
    /\ ask = EmptyBag

\* C26: the step of an accepted ask sends the model the turns the chat held
\* before the question, each once and in order, and the question as the one
\* new message; the question is appended to the chat and is not in the
\* history sent.
C26_AskSendsPriorHistory ==
    [][(~AskRejected /\ HandleAskTutor) =>
          /\ chatMessages' = Append(chatMessages, UserTurn(tutorInput))
          /\ \E inv \in BagToSet(ask') :
                /\ ~BagIn(inv, ask)
                /\ inv.sent.message = tutorInput
                /\ Len(inv.sent.history) = Len(chatMessages)
                /\ \A i \in 1..Len(chatMessages) :
                      /\ inv.sent.history[i].role = chatMessages[i].role
                      /\ inv.sent.history[i].parts = <<[text |-> chatMessages[i].text]>>]_vars

C26_Witness ==
    /\ BagCardinality(ask) = 1
    /\ \E inv \in BagToSet(ask) :
          /\ Len(inv.sent.history) = 2
          /\ inv.sent.history[1].role = "user"
          /\ inv.sent.history[2].role = "model"
          /\ inv.sent.message = <<"q">>
    /\ Len(chatMessages) = 3

\* C27: whenever no ask is outstanding the chat alternates user and
\* assistant turns, starting with a user turn, so its length is even.
C27_ChatAlternates ==
    ask = EmptyBag =>
        /\ Len(chatMessages) % 2 = 0
        /\ \A i \in 1..Len(chatMessages) :
              chatMessages[i].role = IF i % 2 = 1 THEN "user" ELSE "model"

\* C28: every key of the answer map is an MCQ index of the active artifact
\* and its value an option index of that MCQ; with no active artifact the
\* map is empty.
C28_AnswersFitActiveArtifact ==
    \A k \in DOMAIN userAnswers :
        /\ result # Null
        /\ k \in 0..(Len(result.mcqs) - 1)
        /\ userAnswers[k] \in 0..(Len(result.mcqs[k + 1].options) - 1)

\* C29: at most one microphone stream is live and at most one live session
\* is connecting or open at any time.
C29_OneStreamOneSession ==
    /\ Cardinality({k \in 1..Len(streams) : streams[k] = "live"}) <= 1
    /\ Cardinality({k \in 1..Len(sessions) :
                       sessions[k].state \in {"connecting", "open"}}) <= 1

\* A step that settles a successful generation.
GenerationSucceeds ==
    \E inv \in BagToSet(gen) : \E resp \in HistGenResponses :
        GenerateResolve(inv, resp) /\ generateRevision(resp).ok

C24_FailureMessageAndKeyPrompt ==
    [][/\ \A inv \in BagToSet(gen) : \A resp \in GenResponses :
             (GenerateResolve(inv, resp) /\ ~generateRevision(resp).ok) =>
                 /\ error' = BottleneckMsg
                 /\ IF resp \in NotFoundResponses
                    THEN selectKeyOpen'
                    ELSE selectKeyOpen' = selectKeyOpen
       /\ (selectKeyOpen' /\ ~selectKeyOpen) =>
             \E inv \in BagToSet(gen) : \E resp \in NotFoundResponses :
                 GenerateResolve(inv, resp)]_vars

C24_Witness ==
    /\ error = BottleneckMsg
    /\ selectKeyOpen
    /\ ~loading
    /\ gen = EmptyBag
    /\ result = Null

\* C30: isAuthenticated holds only while the latest notification carried a
\* verified user; the step of a login that finds the user unverified shows
\* the verification screen and leaves isAuthenticated false; every step that
\* ends a login clears isAuthenticating, and the one that ends the login of an
\* unverified user leaves the provider signed out and isAuthenticated false.
C30_VerifiedSessionsOnly ==
    [][/\ isAuthenticated' => lastNotified' = "verified"
       /\ \A inv \in BagToSet(login) :
             /\ SignInResolve(inv, "unverified") =>
                   showVerificationScreen' /\ ~isAuthenticated'
             /\ login' = login (-) One(inv) =>
                   /\ ~isAuthenticating'
                   /\ inv.pc = "signOut" => (currentUser' = "none" /\ ~isAuthenticated')]_vars

=============================================================================
